---- MODULE Spec2Model ----
(***************************************************************************)
(* Model of the Daraja payment gateway.                                    *)
(*                                                                         *)
(*   src/server.js  the generic profile: POST /api/pay creates a PENDING   *)
(*                  record in the in-memory Map `payments` and arms a      *)
(*                  2000 ms timer that marks it SUCCESS;                   *)
(*                  GET /api/status/:id reads the Map.                     *)
(*   src/index.js   the provider profile: POST /stk_push, POST /callback,  *)
(*                  POST /mock_stk, GET /health and the audit log.         *)
(*                                                                         *)
(* The two files are two programs.  Spec is the state machine of           *)
(* src/server.js; GatewaySpec is the one of src/index.js, with the         *)
(* handlers of /stk_push, /callback, /mock_stk and /health, the calls to   *)
(* the provider and the audit log.  ValidationSpec applies the validation  *)
(* of both programs to a wider set of inputs.                              *)
(*                                                                         *)
(* JavaScript values are records tagged with their type.  A string is a    *)
(* sequence of one-character strings.  Instants are milliseconds; an ISO   *)
(* timestamp (toISOString) is kept as the instant it denotes.              *)
(***************************************************************************)
EXTENDS Integers, Sequences, FiniteSets, TLC

VARIABLES
    payments,   \* server.js: the Map `payments`, id -> record
    timers,     \* server.js: armed setTimeout callbacks, in arming order
    now,        \* the wall clock, in ms
    created,    \* history: the number of records POST /api/pay has created
    logs,       \* index.js: the audit log files, log type -> the entries appended
    mocks,      \* index.js: armed setTimeout callbacks of POST /mock_stk, in arming order
    stk,        \* index.js: the POST /stk_push requests that passed validation, in order of arrival
    req,        \* the request the last step handled, NoRequest when it handled none
    resp        \* the response the last step sent, NoResponse when it sent none

vars == <<payments, timers, now, created, logs, mocks, stk, req, resp>>

\* the state of src/server.js and the state of src/index.js
svars == <<payments, timers, created>>
gvars == <<logs, mocks, stk>>

----------------------------------------------------------------------------
(* Bounds *)

\* the number of POST /api/pay requests that pass validation
MaxPays == 2

\* the number of clock ticks
MaxTicks == 4

\* the number of clock ticks while src/index.js runs
MaxGatewayTicks == 1

\* the number of entries the audit log files hold together
MaxLog == 2

\* the number of outcomes of Math.random that the last draw of cryptoRandomId explores
IdSpace == 2

----------------------------------------------------------------------------
(* JavaScript values *)

Undefined == [t |-> "undefined"]
Null == [t |-> "null"]
NaN == [t |-> "NaN"]
Num(n) == [t |-> "number", n |-> n]
Str(s) == [t |-> "string", s |-> s]

Digits == {"0", "1", "2", "3", "4", "5", "6", "7", "8", "9"}

DigitVal(c) ==
    CASE c = "0" -> 0 [] c = "1" -> 1 [] c = "2" -> 2 [] c = "3" -> 3
      [] c = "4" -> 4 [] c = "5" -> 5 [] c = "6" -> 6 [] c = "7" -> 7
      [] c = "8" -> 8 [] c = "9" -> 9

DigitChar(d) == <<"0", "1", "2", "3", "4", "5", "6", "7", "8", "9">>[d + 1]

IsDigits(s) == \A i \in 1..Len(s) : s[i] \in Digits

RECURSIVE DecValue(_)
DecValue(s) ==
    IF s = <<>> THEN 0
    ELSE 10 * DecValue(SubSeq(s, 1, Len(s) - 1)) + DigitVal(s[Len(s)])

RECURSIVE NatToString(_)
NatToString(n) ==
    IF n < 10 THEN <<DigitChar(n)>>
    ELSE NatToString(n \div 10) \o <<DigitChar(n % 10)>>

\* String(v)
JsString(v) ==
    CASE v.t = "string" -> v.s
      [] v.t = "number" -> IF v.n < 0 THEN <<"-">> \o NatToString(-v.n) ELSE NatToString(v.n)
      [] v.t = "NaN" -> <<"N", "a", "N">>
      [] v.t = "null" -> <<"n", "u", "l", "l">>
      [] v.t = "undefined" -> <<"u", "n", "d", "e", "f", "i", "n", "e", "d">>

\* StringToNumber on strings of digits, signs and letters: the empty string is 0,
\* an optionally signed run of digits is its value, anything else is NaN
StringToNumber(s) ==
    LET signed == s # <<>> /\ s[1] \in {"+", "-"}
        body == IF signed THEN Tail(s) ELSE s
    IN  IF s = <<>> THEN Num(0)
        ELSE IF body # <<>> /\ IsDigits(body)
             THEN Num(IF s[1] = "-" THEN -DecValue(body) ELSE DecValue(body))
             ELSE NaN

\* Number(v)
JsNumber(v) ==
    CASE v.t = "number" -> v
      [] v.t = "NaN" -> NaN
      [] v.t = "null" -> Num(0)
      [] v.t = "undefined" -> NaN
      [] v.t = "string" -> StringToNumber(v.s)

\* !v
Falsy(v) ==
    \/ v.t \in {"undefined", "null", "NaN"}
    \/ v.t = "number" /\ v.n = 0
    \/ v.t = "string" /\ v.s = <<>>

----------------------------------------------------------------------------
(* src/server.js: validation *)

AmountMsg == "Amount must be a positive number."
PhoneMsg == "Phone must be digits, optionally starting with +, length 7-15."

\* amount == null || isNaN(Number(amount)) || Number(amount) <= 0
AmountInvalid(amount) ==
    \/ amount.t \in {"undefined", "null"}
    \/ JsNumber(amount).t = "NaN"
    \/ JsNumber(amount).n <= 0

\* /^\+?\d{7,15}$/.test(s)
GenericPhoneRe(s) ==
    LET body == IF s # <<>> /\ s[1] = "+" THEN Tail(s) ELSE s
    IN  Len(body) >= 7 /\ Len(body) <= 15 /\ IsDigits(body)

\* !phone || !/^\+?\d{7,15}$/.test(String(phone))
PhoneInvalid(phone) == Falsy(phone) \/ ~GenericPhoneRe(JsString(phone))

\* a validation that stops at the first violated rule
ValidationErrorsFirst(amount, phone) ==
    IF AmountInvalid(amount) THEN <<AmountMsg>>
    ELSE IF PhoneInvalid(phone) THEN <<PhoneMsg>> ELSE <<>>

\* the errors array after both checks
ValidationErrors(amount, phone) ==
    (IF AmountInvalid(amount) THEN <<AmountMsg>> ELSE <<>>)
        \o (IF PhoneInvalid(phone) THEN <<PhoneMsg>> ELSE <<>>)

----------------------------------------------------------------------------
(* src/server.js: identifiers *)

\* the default value of the parameter len
len == 20

chars ==
    <<"A", "B", "C", "D", "E", "F", "G", "H", "I", "J", "K", "L", "M",
      "N", "O", "P", "Q", "R", "S", "T", "U", "V", "W", "X", "Y", "Z",
      "a", "b", "c", "d", "e", "f", "g", "h", "i", "j", "k", "l", "m",
      "n", "o", "p", "q", "r", "s", "t", "u", "v", "w", "x", "y", "z",
      "0", "1", "2", "3", "4", "5", "6", "7", "8", "9">>

\* the values of Math.floor(Math.random() * chars.length), counted from 1, that
\* iteration i of the loop explores: the first of them before the last iteration,
\* the first IdSpace of them in the last
RandomIndex(i) == IF i < len THEN {1} ELSE 1..IdSpace

\* every string the loop of cryptoRandomId returns after n iterations
RECURSIVE RandomIds(_)
RandomIds(n) ==
    IF n = 0 THEN {<<>>}
    ELSE {out \o <<chars[k]>> : out \in RandomIds(n - 1), k \in RandomIndex(n)}

cryptoRandomId == RandomIds(len)

----------------------------------------------------------------------------
(* src/server.js: the clock and the completion timer *)

DemoDelay == 2000

TickLen == DemoDelay \div 2

MaxTime == MaxTicks * TickLen

\* the record built by POST /api/pay
NewRecord(id, amount, phone, reference) ==
    [id |-> id,
     amount |-> JsNumber(amount).n,
     phone |-> JsString(phone),
     reference |-> reference,
     status |-> "PENDING",
     createdAt |-> now]

\* a timer callback that forgets the timestamp
CompleteNoStamp(r) == [r EXCEPT !.status = "SUCCESS"]

\* a timer callback that marks the record FAILED
CompleteFailed(r) ==
    ("completedAt" :> now) @@ [r EXCEPT !.status = "FAILED"]

\* the assignments of the timer callback to the record r
Complete(r) ==
    ("completedAt" :> now) @@ [r EXCEPT !.status = "SUCCESS"]

\* a store that keeps only the record it was last given
MapSetAlone(m, id, record) == [k \in {id} |-> record]

\* payments.set(id, record)
MapSet(m, id, record) ==
    [k \in DOMAIN m \cup {id} |-> IF k = id THEN record ELSE m[k]]

----------------------------------------------------------------------------
(* Requests *)

SampleAmounts == {Undefined, Num(0), Str(<<"7">>)}

SamplePhones ==
    {Str(<<"1", "2", "3", "4", "5", "6">>),
     Str(<<"+", "2", "5", "4", "7", "1", "2", "3", "4", "5", "6", "7", "8">>)}

SampleReferences == {Undefined}

\* ids a caller may ask the status of: every id the generator can return and one it cannot
SampleLookups == cryptoRandomId \cup {<<"?">>}

----------------------------------------------------------------------------
(* src/server.js: the handlers *)

LogTypes == {"request", "callback", "mock"}

NoRequest == [op |-> "none"]

NoResponse == [code |-> 0]

Init ==
    /\ payments = <<>>
    /\ timers = <<>>
    /\ now = 0
    /\ created = 0
    /\ logs = [type \in LogTypes |-> <<>>]
    /\ mocks = <<>>
    /\ stk = <<>>
    /\ req = NoRequest
    /\ resp = NoResponse

\* reference = `REF-${Date.now()}`
DefaultReference == Str(<<"R", "E", "F", "-">> \o NatToString(now))

\* POST /api/pay
Pay(amount, phone, ref) ==
    LET errors == ValidationErrors(amount, phone)
        reference == IF ref.t = "undefined" THEN DefaultReference ELSE ref
    IN  /\ req' = [op |-> "pay", amount |-> amount, phone |-> phone]
        /\ IF errors # <<>>
           THEN /\ resp' = [code |-> 400, ok |-> FALSE, errors |-> errors]
                /\ UNCHANGED <<payments, timers, now, created, gvars>>
           ELSE /\ created < MaxPays
                /\ now + DemoDelay <= MaxTime
                /\ \E id \in cryptoRandomId :
                    LET record == NewRecord(id, amount, phone, reference)
                    IN  /\ payments' = MapSet(payments, id, record)
                        /\ timers' = Append(timers, [id |-> id, due |-> now + DemoDelay])
                        /\ created' = created + 1
                        /\ resp' = [code |-> 200, ok |-> TRUE, payment |-> record]
                /\ UNCHANGED <<now, gvars>>

\* the callback armed by setTimeout(..., 2000); timers of equal delay run in arming order
TimerFire ==
    /\ timers # <<>>
    /\ Head(timers).due <= now
    /\ LET id == Head(timers).id
       IN  payments' = IF id \in DOMAIN payments
                       THEN MapSet(payments, id, Complete(payments[id]))
                       ELSE payments
    /\ timers' = Tail(timers)
    /\ req' = NoRequest
    /\ resp' = NoResponse
    /\ UNCHANGED <<now, created, gvars>>

\* a lookup that answers with the record as it was created
StatusResponseStale(id) ==
    IF id \in DOMAIN payments
    THEN [code |-> 200, ok |-> TRUE,
          payment |-> [f \in DOMAIN payments[id] \ {"completedAt"} |->
                          IF f = "status" THEN "PENDING" ELSE payments[id][f]]]
    ELSE [code |-> 404, ok |-> FALSE, error |-> "Not found"]

\* the response of GET /api/status/:id
StatusResponse(id) ==
    IF id \in DOMAIN payments
    THEN [code |-> 200, ok |-> TRUE, payment |-> payments[id]]
    ELSE [code |-> 404, ok |-> FALSE, error |-> "Not found"]

\* GET /api/status/:id
GetStatus(id) ==
    /\ req' = [op |-> "status", id |-> id]
    /\ resp' = StatusResponse(id)
    /\ UNCHANGED <<payments, timers, now, created, gvars>>

\* time passes
Tick ==
    /\ now + TickLen <= MaxTime
    /\ now' = now + TickLen
    /\ req' = NoRequest
    /\ resp' = NoResponse
    /\ UNCHANGED <<svars, gvars>>

Next ==
    \/ \E amount \in SampleAmounts, phone \in SamplePhones, ref \in SampleReferences :
        Pay(amount, phone, ref)
    \/ TimerFire
    \/ \E id \in SampleLookups : GetStatus(id)
    \/ Tick

Spec == Init /\ [][Next]_vars

\* the event loop runs every due timer callback, and time passes
FairSpec == Spec /\ WF_vars(TimerFire) /\ WF_vars(Tick)

----------------------------------------------------------------------------
(* src/index.js: the audit log *)

\* JSON.stringify leaves out a property whose value is undefined
JsonObject(obj) == [k \in {f \in DOMAIN obj : obj[f] # Undefined} |-> obj[k]]

\* the line writeLog appends: { timestamp, ...data }
LogEntry(data) == JsonObject(data) @@ [timestamp |-> now]

\* the log files after writeLog(type, data) has appended its line
WriteLog(type, data) == [logs EXCEPT ![type] = Append(@, LogEntry(data))]

LogSize == Len(logs["request"]) + Len(logs["callback"]) + Len(logs["mock"])

----------------------------------------------------------------------------
(* src/index.js: the handlers *)

MockDelay == 1000

GatewayMaxTime == MaxGatewayTicks * TickLen

\* req.ip
SampleIp == Str(<<":", ":", "1">>)

\* the bodies the provider posts to /callback
SampleCallbacks ==
    {[Body |-> [stkCallback |-> [CheckoutRequestID |-> "ws_CO_1", ResultCode |-> 0]]],
     [Body |-> [stkCallback |-> [CheckoutRequestID |-> "ws_CO_2", ResultCode |-> 1032]]]}

CallbackOk == [ResultCode |-> 0, ResultDesc |-> "Callback received successfully"]
CallbackError == [ResultCode |-> 1, ResultDesc |-> "Error processing callback"]

\* POST /callback; appended tells whether fs.appendFileSync returns or throws
Callback(body, appended) ==
    /\ appended => LogSize < MaxLog
    /\ req' = [op |-> "callback", body |-> body]
    /\ IF appended
       THEN /\ logs' = WriteLog("callback", [ip |-> SampleIp, data |-> body])
            /\ resp' = [code |-> 200, body |-> CallbackOk]
       ELSE /\ logs' = logs
            /\ resp' = [code |-> 500, body |-> CallbackError]
    /\ UNCHANGED <<svars, mocks, stk, now>>

\* POST /mock_stk; an exception of writeLog leaves the handler and Express answers 500
MockStk(phone, amount, appended) ==
    /\ appended => LogSize < MaxLog /\ now + MockDelay <= GatewayMaxTime
    /\ req' = [op |-> "mock", phone |-> phone, amount |-> amount]
    /\ IF appended
       THEN /\ logs' = WriteLog("mock", [phone |-> phone, amount |-> amount])
            /\ mocks' = Append(mocks, [due |-> now + MockDelay])
            /\ resp' = NoResponse
       ELSE /\ resp' = [code |-> 500, error |-> "Internal Server Error"]
            /\ UNCHANGED <<logs, mocks>>
    /\ UNCHANGED <<svars, stk, now>>

\* the callback armed by setTimeout(..., 1000) in POST /mock_stk
MockFire ==
    /\ mocks # <<>>
    /\ Head(mocks).due <= now
    /\ mocks' = Tail(mocks)
    /\ req' = [op |-> "mock_timer"]
    /\ resp' = [code |-> 200, ok |-> TRUE,
                checkout_id |-> <<"M", "O", "C", "K", "_">> \o NatToString(now),
                response_code |-> "0",
                message |-> "Mock STK push initiated successfully"]
    /\ UNCHANGED <<svars, logs, stk, now>>

\* GET /health
Health ==
    /\ req' = [op |-> "health"]
    /\ resp' = [code |-> 200, status |-> "OK", timestamp |-> now]
    /\ UNCHANGED <<svars, gvars, now>>

----------------------------------------------------------------------------
(* src/index.js: validation of POST /stk_push *)

MissingMsg == "Missing phone or amount"
StkPhoneMsg == "Invalid phone format. Use format: 2547XXXXXXXX"
StkAmountMsg == "Invalid amount. Must be between 1 and 150,000"

\* a pattern without the end anchor
ProviderPhoneReOpen(s) ==
    /\ Len(s) >= 12
    /\ SubSeq(s, 1, 4) = <<"2", "5", "4", "7">>
    /\ IsDigits(SubSeq(s, 5, 12))

\* /^2547\d{8}$/.test(s)
ProviderPhoneRe(s) ==
    /\ Len(s) = 12
    /\ SubSeq(s, 1, 4) = <<"2", "5", "4", "7">>
    /\ IsDigits(SubSeq(s, 5, 12))

\* the longest prefix of s made of digits
DigitPrefix(s) ==
    SubSeq(s, 1, Cardinality({i \in 1..Len(s) : IsDigits(SubSeq(s, 1, i))}))

\* parseInt(v): the string of v, an optional sign, then the digits up to the
\* first character that is none; NaN when there is no digit
ParseInt(v) ==
    LET str == JsString(v)
        signed == str # <<>> /\ str[1] \in {"+", "-"}
        digits == DigitPrefix(IF signed THEN Tail(str) ELSE str)
    IN  IF digits = <<>> THEN NaN
        ELSE Num(IF str[1] = "-" THEN -DecValue(digits) ELSE DecValue(digits))

MaxAmount == 150000

\* isNaN(amountNum) || amountNum <= 0 || amountNum > 150000
AmountNumInvalid(amountNum) ==
    amountNum.t = "NaN" \/ amountNum.n <= 0 \/ amountNum.n > MaxAmount

\* a validation that does not look at the amount
StkValidationNoAmount(phone, amount) ==
    IF Falsy(phone) THEN <<MissingMsg>>
    ELSE IF ~ProviderPhoneRe(JsString(phone)) THEN <<StkPhoneMsg>>
    ELSE <<>>

\* the error of the 400 response of POST /stk_push, <<>> when the input passes
StkValidation(phone, amount) ==
    IF Falsy(phone) \/ Falsy(amount) THEN <<MissingMsg>>
    ELSE IF ~ProviderPhoneRe(JsString(phone)) THEN <<StkPhoneMsg>>
    ELSE IF AmountNumInvalid(ParseInt(amount)) THEN <<StkAmountMsg>>
    ELSE <<>>

----------------------------------------------------------------------------
(* src/index.js: the provider client *)

\* what the provider answers to the token request: a body with or without
\* access_token, an error response with errorMessage, no response at all
TokenReplies ==
    {[kind |-> "data", access_token |-> "token"],
     [kind |-> "data"],
     [kind |-> "error", message |-> "Request failed with status code 400",
      errorMessage |-> "Invalid credentials"],
     [kind |-> "error", message |-> "timeout of 0ms exceeded"]}

\* what the provider answers to the push request
PushReplies ==
    {[kind |-> "data", ResponseCode |-> "0", CheckoutRequestID |-> "ws_CO_1",
      ResponseDescription |-> "Success. Request accepted for processing"],
     [kind |-> "data", ResponseCode |-> "1", ResponseDescription |-> "Rejected"],
     [kind |-> "data", ResponseCode |-> "1"],
     [kind |-> "error", message |-> "Request failed with status code 401",
      errorMessage |-> "Invalid Access Token"],
     [kind |-> "error", message |-> "timeout of 0ms exceeded"]}

\* error.response?.data?.errorMessage || error.message
ErrorText(reply) ==
    IF "errorMessage" \in DOMAIN reply THEN reply.errorMessage ELSE reply.message

\* getAccessToken once the provider has answered: the token, or the Error thrown
GetAccessToken(reply) ==
    IF reply.kind = "data" /\ "access_token" \in DOMAIN reply
    THEN [ok |-> TRUE, token |-> reply.access_token]
    ELSE [ok |-> FALSE,
          message |-> <<"Authentication failed: ",
                        IF reply.kind = "error" THEN ErrorText(reply)
                        ELSE "Failed to obtain access token">>]

\* initiateSTKPush once the provider has answered: response.data, or the Error thrown
InitiateSTKPush(reply) ==
    IF reply.kind = "data"
    THEN [ok |-> TRUE, data |-> reply]
    ELSE [ok |-> FALSE, message |-> <<"STK push failed: ", ErrorText(reply)>>]

\* a handler that takes every answered push for an accepted one
PushResponseAny(data) ==
    [code |-> 200, ok |-> TRUE,
     checkout_id |-> IF "CheckoutRequestID" \in DOMAIN data
                     THEN data.CheckoutRequestID ELSE "",
     response_code |-> data.ResponseCode,
     message |-> "STK push initiated successfully"]

\* the response of POST /stk_push to the acknowledgment stkResponse
PushResponse(data) ==
    IF "ResponseCode" \in DOMAIN data /\ data.ResponseCode = "0"
    THEN [code |-> 200, ok |-> TRUE,
          checkout_id |-> data.CheckoutRequestID,
          response_code |-> data.ResponseCode,
          message |-> "STK push initiated successfully"]
    ELSE [code |-> 500, ok |-> FALSE,
          error |-> <<IF "ResponseDescription" \in DOMAIN data
                      THEN data.ResponseDescription ELSE "STK push failed">>]

\* the response of the catch block of POST /stk_push
CatchResponse(message) == [code |-> 500, ok |-> FALSE, error |-> message]

\* a request that asks for a token again when the provider refused one
RetryToken(ctx, response) == [ctx EXCEPT !.tokenCalls = @ + 1]

\* what the history of a request keeps of a response: its status, and the
\* checkout_id it handed out
Summary(response) ==
    [f \in DOMAIN response \cap {"code", "ok", "checkout_id"} |-> response[f]]

\* the request ctx after its handler has sent response
Respond(ctx, response) ==
    [ctx EXCEPT !.pc = "done", !.sent = Append(@, Summary(response))]

----------------------------------------------------------------------------
(* src/index.js: POST /stk_push *)

StkPhones ==
    {Undefined,
     Str(<<"+", "2", "5", "4", "7", "1", "2", "3", "4", "5", "6", "7", "8">>),
     Str(<<"2", "5", "4", "7", "1", "2", "3", "4", "5", "6", "7", "8">>)}

StkAmounts == {Str(<<"a">>), Str(<<"7">>)}

\* the message of the Error fs.appendFileSync throws
AppendErrorText == "ENOSPC: no space left on device, write"

\* POST /stk_push up to its first await: validation, the audit log and the call
\* of getAccessToken; appended tells whether fs.appendFileSync returns or throws
StkPush(phone, amount, appended) ==
    LET error == StkValidation(phone, amount)
    IN  /\ req' = [op |-> "stk_push", phone |-> phone, amount |-> amount]
        /\ IF error # <<>>
           THEN /\ resp' = [code |-> 400, ok |-> FALSE, error |-> error]
                /\ UNCHANGED <<logs, stk>>
           ELSE IF ~appended
           THEN /\ resp' = CatchResponse(<<AppendErrorText>>)
                /\ UNCHANGED <<logs, stk>>
           ELSE /\ LogSize < MaxLog
                /\ logs' = WriteLog("request", [phone |-> phone, amount |-> ParseInt(amount)])
                /\ stk' = Append(stk, [phone |-> phone, amount |-> ParseInt(amount),
                                       pc |-> "token", auth |-> "wait",
                                       tokenCalls |-> 1, pushCalls |-> 0, sent |-> <<>>])
                /\ resp' = NoResponse
        /\ UNCHANGED <<svars, mocks, now>>

\* request n resumes after await getAccessToken(): it calls initiateSTKPush, or
\* the Error thrown reaches the catch block
StkToken(n, reply) ==
    LET result == GetAccessToken(reply)
    IN  /\ stk[n].pc = "token"
        /\ req' = [op |-> "stk_token", n |-> n, reply |-> reply]
        /\ IF result.ok
           THEN /\ stk' = [stk EXCEPT ![n].pc = "push", ![n].auth = "ok",
                                      ![n].pushCalls = @ + 1]
                /\ resp' = NoResponse
           ELSE /\ resp' = CatchResponse(result.message)
                /\ stk' = [stk EXCEPT ![n] = Respond([@ EXCEPT !.auth = "failed"], resp')]
        /\ UNCHANGED <<svars, logs, mocks, now>>

\* request n resumes after await initiateSTKPush(): it answers
StkAnswer(n, reply) ==
    LET result == InitiateSTKPush(reply)
    IN  /\ stk[n].pc = "push"
        /\ req' = [op |-> "stk_answer", n |-> n, reply |-> reply]
        /\ resp' = IF result.ok THEN PushResponse(result.data)
                   ELSE CatchResponse(result.message)
        /\ stk' = [stk EXCEPT ![n] = Respond(@, resp')]
        /\ UNCHANGED <<svars, logs, mocks, now>>

\* time passes
GatewayTick ==
    /\ now + TickLen <= GatewayMaxTime
    /\ now' = now + TickLen
    /\ req' = NoRequest
    /\ resp' = NoResponse
    /\ UNCHANGED <<svars, gvars>>

GatewayNext ==
    \/ \E body \in SampleCallbacks, appended \in BOOLEAN : Callback(body, appended)
    \/ \E phone \in SamplePhones \cup {Undefined}, appended \in BOOLEAN :
        MockStk(phone, Str(<<"7">>), appended)
    \/ MockFire
    \/ Health
    \/ \E phone \in StkPhones, amount \in StkAmounts, appended \in BOOLEAN :
        StkPush(phone, amount, appended)
    \/ \E n \in DOMAIN stk, reply \in TokenReplies : StkToken(n, reply)
    \/ \E n \in DOMAIN stk, reply \in PushReplies : StkAnswer(n, reply)
    \/ GatewayTick

GatewaySpec == Init /\ [][GatewayNext]_vars

----------------------------------------------------------------------------
(* The validation of both programs on a wider set of inputs *)

RichAmounts ==
    {Undefined, Null, Num(0), Num(-5), Num(1), Num(150000), Num(150001),
     Str(<<>>), Str(<<"a", "b", "c">>), Str(<<"0">>), Str(<<"-", "5">>),
     Str(<<"7">>), Str(<<"7", "a">>),
     Str(<<"1", "5", "0", "0", "0", "0">>), Str(<<"1", "5", "0", "0", "0", "1">>)}

RichPhones ==
    {Undefined, Num(0), Num(7123456), Str(<<>>), Str(<<"+">>),
     Str(<<"2", "5", "4", "7", "1", "2", "3", "4", "5", "6", "7", "8">>),
     Str(<<"+", "2", "5", "4", "7", "1", "2", "3", "4", "5", "6", "7", "8">>),
     Str(<<"0", "7", "1", "2", "3", "4", "5", "6", "7">>),
     Str(<<"2", "5", "4", "8", "1", "2", "3", "4", "5", "6", "7", "8">>),
     Str(<<"2", "5", "4", "7", "1", "2", "3", "4", "5", "6", "7", "a">>),
     Str(<<"2", "5", "4", "7", "1", "2", "3", "4", "5", "6", "7">>),
     Str(<<"2", "5", "4", "7", "1", "2", "3", "4", "5", "6", "7", "8", "9">>),
     Str(<<"1", "2", "3", "4", "5", "6">>),
     Str(<<"1", "2", "3", "4", "5", "6", "7">>),
     Str(<<"1", "2", "3", "4", "5", "6", "7", "8", "9", "0", "1", "2", "3", "4", "5">>),
     Str(<<"1", "2", "3", "4", "5", "6", "7", "8", "9", "0", "1", "2", "3", "4", "5", "6">>),
     Str(<<"+", "1", "2", "3", "4", "5", "6">>)}

\* the checks of POST /api/pay on the body {amount, phone}
ValidateGeneric(amount, phone) ==
    /\ req' = [op |-> "validate_generic", amount |-> amount, phone |-> phone]
    /\ resp' = [errors |-> ValidationErrors(amount, phone)]
    /\ UNCHANGED <<svars, gvars, now>>

\* the checks of POST /stk_push on the body {phone, amount}
ValidateProvider(phone, amount) ==
    /\ req' = [op |-> "validate_provider", amount |-> amount, phone |-> phone]
    /\ resp' = [error |-> StkValidation(phone, amount)]
    /\ UNCHANGED <<svars, gvars, now>>

ValidationNext ==
    \/ \E amount \in RichAmounts, phone \in RichPhones : ValidateGeneric(amount, phone)
    \/ \E amount \in RichAmounts, phone \in RichPhones : ValidateProvider(phone, amount)

ValidationSpec == Init /\ [][ValidationNext]_vars

----------------------------------------------------------------------------
(* Properties of src/server.js *)

Terminal == {"SUCCESS", "FAILED"}

Contains(s, e) == \E i \in 1..Len(s) : s[i] = e

PayAccepted == req.op = "pay" /\ resp.code = 200

\* C1: every accepted POST /api/pay returns a PENDING record whose id no earlier
\* call returned: the records created so far all have different ids, so the store
\* holds as many ids as records were created
C1_UniqueIds ==
    /\ PayAccepted => resp.payment.status = "PENDING"
    /\ created = Cardinality(DOMAIN payments)

\* C2: the status stored under an id never leaves a terminal state: a step keeps
\* every SUCCESS or FAILED status as it is
C2_StatusMonotonic ==
    [][\A id \in DOMAIN payments :
          payments[id].status \in Terminal =>
              id \in DOMAIN payments' /\ payments'[id].status = payments[id].status]_vars

\* C3: a stored record carries completedAt exactly when its status is terminal
C3_CompletedAtIffTerminal ==
    \A id \in DOMAIN payments :
        "completedAt" \in DOMAIN payments[id] <=> payments[id].status \in Terminal

C3_Witness ==
    \E id, other \in DOMAIN payments :
        /\ payments[id].status = "SUCCESS"
        /\ "completedAt" \in DOMAIN payments[id]
        /\ payments[other].status = "PENDING"

\* C4: a POST /api/pay that violates a rule is answered 400 with the message of
\* every violated rule, and the step leaves the store and the timers as they were
C4_InvalidRejected ==
    [][(req'.op = "pay" /\ (AmountInvalid(req'.amount) \/ PhoneInvalid(req'.phone))) =>
          /\ resp'.code = 400
          /\ resp'.ok = FALSE
          /\ AmountInvalid(req'.amount) <=> Contains(resp'.errors, AmountMsg)
          /\ PhoneInvalid(req'.phone) <=> Contains(resp'.errors, PhoneMsg)
          /\ payments' = payments
          /\ timers' = timers
          /\ created' = created]_vars

C4_Witness ==
    /\ req.op = "pay"
    /\ resp.code = 400
    /\ resp.errors = <<AmountMsg, PhoneMsg>>
    /\ payments # <<>>
    /\ timers # <<>>

\* C5: the record stored under an id is PENDING as long as less than the
\* completion delay has passed since it was created
C5_PendingBeforeDelay ==
    \A id \in DOMAIN payments :
        now < payments[id].createdAt + DemoDelay => payments[id].status = "PENDING"

C7_GetStatus ==
    [][req'.op = "status" =>
          /\ resp'.code = 404 <=> req'.id \notin DOMAIN payments
          /\ req'.id \in DOMAIN payments =>
                resp'.code = 200 /\ resp'.ok = TRUE /\ resp'.payment = payments[req'.id]
          /\ payments' = payments
          /\ timers' = timers
          /\ created' = created]_vars

C7_Witness ==
    /\ req.op = "status"
    /\ resp.code = 200
    /\ resp.payment.status = "SUCCESS"
    /\ resp.payment = payments[req.id]

\* C8: no step removes an id from the store, the id an accepted POST /api/pay
\* returns is in the store when it returns, and a lookup of a stored id finds a record
C8_NeverRemoved ==
    [][/\ DOMAIN payments \subseteq DOMAIN payments'
       /\ (req'.op = "pay" /\ resp'.code = 200) => resp'.payment.id \in DOMAIN payments'
       /\ (req'.op = "status" /\ req'.id \in DOMAIN payments) => resp'.code = 200]_vars

C8_Witness ==
    /\ req.op = "status"
    /\ resp.code = 200
    /\ resp.payment.status = "PENDING"
    /\ Cardinality(DOMAIN payments) > 1

ImmutableFields == {"id", "amount", "phone", "reference", "createdAt"}

TimersOf(q, id) == {k \in DOMAIN q : q[k].id = id}

\* C18: the completion is written once per id: a step leaves at most one timer
\* pending for each id, and completedAt, once set under an id, keeps its value
C18_CompletedOnce ==
    [][/\ \A id \in cryptoRandomId : Cardinality(TimersOf(timers', id)) <= 1
       /\ \A id \in DOMAIN payments :
             "completedAt" \in DOMAIN payments[id] =>
                 /\ id \in DOMAIN payments'
                 /\ "completedAt" \in DOMAIN payments'[id]
                 /\ payments'[id].completedAt = payments[id].completedAt]_vars

\* C19: a step leaves id, amount, phone, reference and createdAt of every stored
\* record as they were, and a timer callback changes no record but the one
\* under its own id
C19_FieldsImmutable ==
    [][/\ \A id \in DOMAIN payments :
             /\ id \in DOMAIN payments'
             /\ \A f \in ImmutableFields : payments'[id][f] = payments[id][f]
       /\ (timers # <<>> /\ timers' = Tail(timers)) =>
             \A id \in DOMAIN payments \ {Head(timers).id} : payments'[id] = payments[id]]_vars

----------------------------------------------------------------------------
(* Properties of src/index.js *)

\* C9: POST /callback is never answered with a non-success status: every answer
\* is 200 and carries the acknowledgment, ResultCode 0 or ResultCode 1
C9_CallbackNeverErrors ==
    req.op = "callback" =>
        /\ resp.code = 200
        /\ resp.body \in {CallbackOk, CallbackError}

\* the checkout ids POST /stk_push has handed out
KnownReferences ==
    {stk[n].sent[1].checkout_id :
        n \in {m \in DOMAIN stk : stk[m].sent # <<>> /\ stk[m].sent[1].ok}}

CallbackReference(body) == body.Body.stkCallback.CheckoutRequestID

\* C11: a callback whose reference no accepted push was given changes no
\* transaction and is answered 200 with the success acknowledgment
C11_UnknownReferenceAck ==
    [][(req'.op = "callback" /\ CallbackReference(req'.body) \notin KnownReferences) =>
          /\ stk' = stk
          /\ payments' = payments
          /\ resp' = [code |-> 200, body |-> CallbackOk]]_vars

\* the description the provider gave with a reply, "" when it gave none
ProviderDescription(reply) ==
    IF reply.kind = "data"
    THEN (IF "ResponseDescription" \in DOMAIN reply THEN reply.ResponseDescription ELSE "")
    ELSE (IF "errorMessage" \in DOMAIN reply THEN reply.errorMessage ELSE "")

PushAccepted(reply) ==
    reply.kind = "data" /\ "ResponseCode" \in DOMAIN reply /\ reply.ResponseCode = "0"

TokenObtained(reply) == reply.kind = "data" /\ "access_token" \in DOMAIN reply

Failure(response, reply) ==
    /\ response.code = 500
    /\ response.ok = FALSE
    /\ ProviderDescription(reply) # "" => Contains(response.error, ProviderDescription(reply))

\* C12: a validated POST /stk_push is answered ok:true, with the provider's
\* checkout id and response code "0", exactly when the token was obtained and the
\* provider acknowledged the push with code "0"; a refused token, a failed
\* transport and any other code are answered 500, ok:false, with the provider's
\* description when it gave one
C12_PushOutcome ==
    [][/\ req'.op = "stk_token" =>
             IF TokenObtained(req'.reply) THEN resp' = NoResponse
             ELSE Failure(resp', req'.reply)
       /\ req'.op = "stk_answer" =>
             /\ stk[req'.n].auth = "ok"
             /\ resp'.ok <=> PushAccepted(req'.reply)
             /\ PushAccepted(req'.reply) =>
                   /\ resp'.code = 200
                   /\ resp'.checkout_id = req'.reply.CheckoutRequestID
                   /\ resp'.response_code = "0"
             /\ ~PushAccepted(req'.reply) => Failure(resp', req'.reply)]_vars

C12_Witness ==
    /\ req.op = "stk_answer"
    /\ resp.ok
    /\ resp.checkout_id = "ws_CO_1"
    /\ \E n \in DOMAIN stk : stk[n].sent = <<[code |-> 500, ok |-> FALSE]>>

\* the rules of the provider profile
StkPhoneViolated(phone) == Falsy(phone) \/ ~ProviderPhoneRe(JsString(phone))
StkAmountViolated(amount) == Falsy(amount) \/ AmountNumInvalid(ParseInt(amount))

\* C13: a POST /stk_push whose phone and amount are both invalid is answered with
\* both violations
C13_AllViolationsReported ==
    (req.op = "stk_push" /\ StkPhoneViolated(req.phone) /\ StkAmountViolated(req.amount)) =>
        /\ resp.code = 400
        /\ Contains(resp.error, StkPhoneMsg) \/ Contains(resp.error, MissingMsg)
        /\ Contains(resp.error, StkAmountMsg) \/ Contains(resp.error, MissingMsg)

\* C14: a failed append to the audit log blocks no request: every valid
\* POST /stk_push goes on to the provider, every callback is acknowledged with
\* ResultCode 0, and every POST /mock_stk arms its response
C14_LogFailureNeverBlocks ==
    /\ (req.op = "stk_push" /\ ~StkPhoneViolated(req.phone) /\ ~StkAmountViolated(req.amount)) =>
          resp = NoResponse
    /\ req.op = "callback" => resp.body = CallbackOk
    /\ req.op = "mock" => resp = NoResponse

\* C15: a request that fails validation contacts nothing: a POST /stk_push that
\* violates a rule is answered 400 and starts no call to the provider, and a
\* POST /api/pay that violates a rule creates no record
C15_NoContactWhenInvalid ==
    [][/\ (req'.op = "stk_push" /\ (StkPhoneViolated(req'.phone) \/ StkAmountViolated(req'.amount))) =>
             resp'.code = 400 /\ stk' = stk
       /\ (req'.op = "pay" /\ (AmountInvalid(req'.amount) \/ PhoneInvalid(req'.phone))) =>
             payments' = payments /\ timers' = timers
       /\ stk' # stk =>
             \A n \in DOMAIN stk' \ DOMAIN stk :
                 ~StkPhoneViolated(stk'[n].phone) /\ ~AmountNumInvalid(stk'[n].amount)]_vars

C15_Witness ==
    /\ req.op = "stk_push"
    /\ resp.code = 400
    /\ resp.error = <<StkAmountMsg>>
    /\ \E n \in DOMAIN stk : stk[n].pc = "token"

\* the number a value denotes: a number is itself, a string of digits with an
\* optional sign is its decimal value, nothing else denotes a number
IsNumeral(s) ==
    LET body == IF s # <<>> /\ s[1] \in {"+", "-"} THEN Tail(s) ELSE s
    IN  body # <<>> /\ IsDigits(body)

DenotesNumber(v) == v.t = "number" \/ (v.t = "string" /\ IsNumeral(v.s))

NumberDenoted(v) == IF v.t = "number" THEN v.n ELSE StringToNumber(v.s).n

ValidStkPhone == Str(<<"2", "5", "4", "7", "1", "2", "3", "4", "5", "6", "7", "8">>)

\* C16: the provider profile accepts an amount exactly when it denotes a number
\* from 1 to 150000, the generic profile exactly when it denotes a number above 0
C16_AmountRule ==
    /\ (req.op = "validate_provider" /\ req.phone = ValidStkPhone) =>
          (resp.error = <<>> <=>
              DenotesNumber(req.amount)
                  /\ NumberDenoted(req.amount) >= 1 /\ NumberDenoted(req.amount) <= MaxAmount)
    /\ req.op = "validate_generic" =>
          (~Contains(resp.errors, AmountMsg) <=>
              DenotesNumber(req.amount) /\ NumberDenoted(req.amount) > 0)

\* the text of a phone value
PhoneText(v) == IF v.t \in {"string", "number"} THEN JsString(v) ELSE <<>>

\* 2547 and 8 more digits
IsProviderPhone(s) ==
    /\ Len(s) = 12
    /\ IsDigits(s)
    /\ s[1] = "2" /\ s[2] = "5" /\ s[3] = "4" /\ s[4] = "7"

\* 7 to 15 digits after an optional +
IsGenericPhone(s) ==
    \E k \in 7..15 :
        \/ Len(s) = k /\ IsDigits(s)
        \/ Len(s) = k + 1 /\ s[1] = "+" /\ IsDigits(Tail(s))

\* C17: the provider profile accepts a phone exactly when it is 2547 followed by
\* 8 digits, the generic profile exactly when it is 7 to 15 digits after an
\* optional +
C17_PhoneRule ==
    /\ (req.op = "validate_provider" /\ req.amount = Str(<<"7">>)) =>
          (resp.error = <<>> <=> IsProviderPhone(PhoneText(req.phone)))
    /\ req.op = "validate_generic" =>
          (~Contains(resp.errors, PhoneMsg) <=> IsGenericPhone(PhoneText(req.phone)))

C17_Witness ==
    /\ req.op = "validate_provider"
    /\ req.amount = Str(<<"7">>)
    /\ req.phone = Str(<<"+", "2", "5", "4", "7", "1", "2", "3", "4", "5", "6", "7", "8">>)
    /\ resp.error = <<StkPhoneMsg>>

\* C20: a POST /stk_push asks for a token once and submits the push at most once,
\* and only with a token; when the token is refused it submits nothing, asks
\* again for nothing and answers once, with a failure
C20_OneTokenOnePush ==
    \A n \in DOMAIN stk :
        /\ stk[n].tokenCalls = 1
        /\ stk[n].pushCalls <= 1
        /\ stk[n].pushCalls = 1 => stk[n].auth = "ok"
        /\ Len(stk[n].sent) <= 1
        /\ stk[n].pc = "done" <=> Len(stk[n].sent) = 1
        /\ stk[n].auth = "failed" =>
              /\ stk[n].pushCalls = 0
              /\ stk[n].pc = "done"
              /\ stk[n].sent = <<[code |-> 500, ok |-> FALSE]>>

C20_Witness ==
    \E n, m \in DOMAIN stk :
        /\ stk[n].auth = "failed"
        /\ stk[n].pc = "done"
        /\ stk[m].pushCalls = 1
        /\ stk[m].pc = "done"

====
